---- MODULE Spec2Model ----
(***************************************************************************)
(* Consensus core of the dex repository: the Chain (pkg/consensus/chain.go), *)
(* the random beacon RoundInfo and Notary.Notarize, as state machines.     *)
(* Spec and SpecAll run the handlers of the Chain and of RoundInfo as       *)
(* atomic calls, SpecLock runs the Chain's public operations as concurrent *)
(* goroutines around c.mu, SpecBeacon runs two RoundInfo side by side, and *)
(* SpecNotary runs one call of Notarize against its channels.              *)
(*                                                                         *)
(* Hashes are modelled as injective encodings of the hashed content into   *)
(* sequences of integers (collision resistance).  A *notarized pointer is  *)
(* modelled by the hash of the node's block: addBlock refuses a block hash *)
(* it already holds, so a block hash names at most one node of the tree.   *)
(* The fork tree is the arena `nodes` (block hash -> notarized struct)     *)
(* rooted at the sequence Fork.  The application states (State, SysState)  *)
(* carried by the nodes are never read by the chain and are left out, as   *)
(* are Txns / SysTxns and the Round field of an NtShare.  All key shares   *)
(* belong to the group that groupID names.                                 *)
(***************************************************************************)
EXTENDS Integers, Sequences, FiniteSets, Bags, TLC

\* ---------------------------------------------------------------- bounds
NumOwners == 3
NumBeaconOwners == 2
MaxBPRound == 1
NumStateRoots == 1
MaxWeight == 2
MaxBPWeight == 1
MaxBPs == 2
MaxBlocks == 2
SmallMaxBPs == 1
SmallMaxBlocks == 1
MaxBeaconRound == 1
MaxBeaconShares == 2
NumSigVals == 1
NumGroups == 2
RandSpace == 3
Seed == 1
NumThreads == 2
NumProposers == 3
NumTxns == 2
MaxBestRankBPs == 2
MaxTwinRound == 3
NumTwinSigVals == 2

\* ------------------------------------------------------ program constants
\* cfg.GroupThreshold, the notarization threshold of the chain
GroupThreshold == 2
\* groupThreshold, the package constant the random beacon compares with
groupThreshold == 2
\* math.MaxUint16, the rank Notarize starts from
MaxUint16 == 65535

Owners == 1..NumOwners
BeaconOwners == 1..NumBeaconOwners
Rounds == 1..MaxBPRound
StateRoots == 1..NumStateRoots
Weights == 1..MaxWeight
BPWeights == 1..MaxBPWeight
SigVals == 0..(NumSigVals - 1)
Threads == 1..NumThreads

VARIABLES
  History,              \* []Hash
  Finalized,            \* []*finalized
  Fork,                 \* []*notarized, as block hashes
  nodes,                \* the notarized structs, by block hash
  UnNotarizedNotOnFork, \* []*unNotarized
  hashToBlock,          \* map[Hash]*Block
  hashToBP,             \* map[Hash]*BlockProposal
  hashToNtShare,        \* map[Hash]*NtShare
  bpToNtShares,         \* map[Hash][]*NtShare
  bpNeedNotarize,       \* map[Hash]bool
  nextRBCmteHistory,    \* RoundInfo
  nextNtCmteHistory,
  nextBPCmteHistory,
  rbRand,
  ntRand,
  bpRand,
  curRoundShares,
  recvBPs,              \* the proposals handed to go c.n.RecvBlockProposal
  started,              \* the rounds handed to go c.n.StartRound, in order
  panicked,             \* a panic has taken the process down
  ret,                  \* the last call: its arguments and what it returned
  ntBlocks,             \* the blocks addNtShare has returned, a bag
  acceptedShares,       \* the (proposal, owner) pairs addNtShare has accepted
  mu,                   \* Chain.mu: the goroutine that holds it, 0 when free
  pc,                   \* where each goroutine calling into the Chain stands
  call,                 \* the call each goroutine is in
  fcRead,               \* FinalizedChain: the blocks each goroutine has read so far
  nPc,                  \* Notary.Notarize: where the call stands
  bestRankBPs,          \* Notarize: var bestRankBPs []*BlockProposal
  bestRank,             \* Notarize: bestRank
  recvBestRank,         \* Notarize: recvBestRank; recvBestRankCh is closed iff it is set
  ctxDone,              \* ctx.Done() is closed: the soft deadline has fired
  cancelDone,           \* cancel.Done() is closed: the hard cancel has fired
  nIdx,                 \* the index of the range loop over bestRankBPs
  nCur,                 \* the proposal n.notarize was called for, with the time of the call
  received,             \* the proposals collected with a rank
  emitted,              \* the shares handed to onNotarize
  twin                  \* a second RoundInfo, made from the same seed and groups

chainVars == <<History, Finalized, Fork, nodes, UnNotarizedNotOnFork, hashToBlock,
               hashToBP, hashToNtShare, bpToNtShares, bpNeedNotarize>>
beaconVars == <<nextRBCmteHistory, nextNtCmteHistory, nextBPCmteHistory,
                rbRand, ntRand, bpRand, curRoundShares>>
lockVars == <<mu, pc, call, fcRead>>
notaryVars == <<nPc, bestRankBPs, bestRank, recvBestRank, ctxDone, cancelDone, nIdx, nCur,
                received, emitted>>
otherVars == <<lockVars, notaryVars, twin>>
outsideLock == <<notaryVars, twin>>
vars == <<chainVars, beaconVars, recvBPs, started, panicked, ret, ntBlocks, acceptedShares,
          otherVars>>

\* ------------------------------------------------------------ map helpers
MapPut(m, k, v) == [x \in DOMAIN m \cup {k} |-> IF x = k THEN v ELSE m[x]]
MapDel(m, k) == [x \in DOMAIN m \ {k} |-> m[x]]
MapGet(m, k, zero) == IF k \in DOMAIN m THEN m[k] ELSE zero
EmptyMap == [x \in {} |-> 0]

\* ----------------------------------------------------------------- hashes
Nil == <<>>
NoSuchHash == <<9>>
Genesis == [Round |-> 0, StateRoot |-> 0, BlockProposal |-> Nil, PrevBlock |-> Nil]

HashBP(bp) == <<1, bp.Round>> \o bp.PrevBlock
HashBlock(b) ==
  <<2, b.Round, b.StateRoot, Len(b.BlockProposal)>> \o b.BlockProposal \o b.PrevBlock
HashNtShare(n) ==
  <<3, n.Owner, n.StateRoot, Len(n.BP)>> \o n.BP \o n.SigShare
GenesisHash == HashBlock(Genesis)

\* The byte strings that get signed.
EncodeBP(bp, withSig) == <<4, IF withSig THEN 1 ELSE 0>> \o HashBP(bp)
EncodeBlock(b, withSig) == <<5, IF withSig THEN 1 ELSE 0>> \o HashBlock(b)

\* ------------------------------------------------------------- fork tree
\* A bug that adds up the heights of the siblings instead of taking the largest.
RECURSIVE maxHeightSum(_, _)
maxHeightSum(ns, tree) ==
  IF ns = <<>> THEN 0
  ELSE maxHeightSum(tree[Head(ns)].NtChildren, tree) + 1 + maxHeightSum(Tail(ns), tree)

RECURSIVE maxHeight(_, _)
maxHeight(ns, tree) ==
  IF ns = <<>> THEN 0
  ELSE LET h == maxHeight(tree[Head(ns)].NtChildren, tree) + 1
           max == maxHeight(Tail(ns), tree)
       IN IF max < h THEN h ELSE max

round(history, finalizedList, fork, tree) ==
  Len(history) + Len(finalizedList) + maxHeight(fork, tree)

Round == round(History, Finalized, Fork, nodes)

\* A bug that looks at the roots of the fork only.
findPrevBlockRootsOnly(prevBlock, ns) ==
  IF \E i \in 1..Len(ns) : ns[i] = prevBlock THEN prevBlock ELSE Nil

RECURSIVE findPrevBlock(_, _)
findPrevBlock(prevBlock, ns) ==
  IF ns = <<>> THEN Nil
  ELSE IF Head(ns) = prevBlock THEN Head(ns)
  ELSE LET n == findPrevBlock(prevBlock, nodes[Head(ns)].NtChildren)
       IN IF n # Nil THEN n ELSE findPrevBlock(prevBlock, Tail(ns))

RECURSIVE firstLeaf(_)
firstLeaf(n) ==
  IF Len(nodes[n].NtChildren) > 0 THEN firstLeaf(nodes[n].NtChildren[1]) ELSE n

heaviestFork == firstLeaf(Fork[1])

\* The hash of the block Leader returns.
Leader ==
  IF Len(Fork) = 0
  THEN IF Len(Finalized) = 0 THEN History[Len(History)]
       ELSE Finalized[Len(Finalized)].Block
  ELSE nodes[heaviestFork].Block

\* ---------------------------------------------------------------- queries
Block(h) == MapGet(hashToBlock, h, Nil)
BlockProposal(h) == MapGet(hashToBP, h, Nil)
NtShare(h) == MapGet(hashToNtShare, h, Nil)
NeedNotarize(h) == MapGet(bpNeedNotarize, h, FALSE)
randRound == Len(nextRBCmteHistory)

\* ------------------------------------------------------------------ calls
Ret(op, err, val) == [op |-> op, err |-> err, val |-> val]
NoCall == [op |-> "none", b |-> Nil, weight |-> 0, prevRound |-> 0]

\* addBP --------------------------------------------------------------------
addBPErr(bp) ==
  LET notarized == findPrevBlock(bp.PrevBlock, Fork)
  IN IF HashBP(bp) \in DOMAIN hashToBP THEN "chain data already exists"
     ELSE IF /\ notarized = Nil
             /\ Len(Finalized) > 0
             /\ Finalized[Len(Finalized)].Block # bp.PrevBlock
          THEN "block proposal's parent not found"
     ELSE IF notarized = Nil /\ History[Len(History)] # bp.PrevBlock
          THEN "block proposal's parent not found"
     ELSE "nil"

addBP(bp, weight) ==
  /\ ~panicked
  /\ LET h == HashBP(bp)
         err == addBPErr(bp)
         notarized == findPrevBlock(bp.PrevBlock, Fork)
         u == [Weight |-> weight, BP |-> h]
     IN /\ ret' = Ret("addBP", err, <<>>)
        /\ IF err # "nil"
           THEN UNCHANGED <<hashToBP, nodes, UnNotarizedNotOnFork, bpNeedNotarize, recvBPs>>
           ELSE /\ hashToBP' = MapPut(hashToBP, h, bp)
                /\ IF notarized # Nil
                   THEN /\ nodes' = [nodes EXCEPT ![notarized].NonNtChildren = Append(@, u)]
                        /\ UNCHANGED UnNotarizedNotOnFork
                   ELSE /\ UnNotarizedNotOnFork' = Append(UnNotarizedNotOnFork, u)
                        /\ UNCHANGED nodes
                /\ bpNeedNotarize' = MapPut(bpNeedNotarize, h, TRUE)
                /\ recvBPs' = recvBPs \cup {bp}
  /\ UNCHANGED <<History, Finalized, Fork, hashToBlock, hashToNtShare, bpToNtShares,
                 beaconVars, started, panicked, ntBlocks, acceptedShares>>

\* addNtShare ---------------------------------------------------------------
\* A bug that compares the shares themselves instead of their owners.
ownerAlreadyReceivedSameShare(n) ==
  \E i \in 1..Len(MapGet(bpToNtShares, n.BP, <<>>)) :
     HashNtShare(bpToNtShares[n.BP][i]) = HashNtShare(n)

ownerAlreadyReceived(n) ==
  \E i \in 1..Len(MapGet(bpToNtShares, n.BP, <<>>)) : bpToNtShares[n.BP][i].Owner = n.Owner

addNtShareErr(n) ==
  IF n.BP \notin DOMAIN hashToBP THEN "block proposal not found"
  ELSE IF ~NeedNotarize(n.BP) THEN "block proposal do not need notarization"
  ELSE IF ownerAlreadyReceived(n) THEN "notarization share from the owner already received"
  ELSE "nil"

\* The aggregate of the shares: a group signature over the one message all the
\* shares sign, none when they sign different messages.
recoverNtSig(shares) ==
  IF \A i \in 1..Len(shares) : shares[i].SigShare = shares[1].SigShare
  THEN [ok |-> TRUE, msg |-> shares[1].SigShare]
  ELSE [ok |-> FALSE, msg |-> Nil]

validateGroupSig(sig, bp) == sig.ok /\ sig.msg = EncodeBP(bp, TRUE)

\* A bug that takes the block's parent from the share instead of the proposal.
newBlockParentFromShare(bp, n) ==
  [Round |-> bp.Round, StateRoot |-> n.StateRoot, BlockProposal |-> n.BP,
   PrevBlock |-> n.BP]

newBlock(bp, n) ==
  [Round |-> bp.Round, StateRoot |-> n.StateRoot, BlockProposal |-> n.BP,
   PrevBlock |-> bp.PrevBlock]

RECURSIVE deleteShares(_, _)
deleteShares(m, shares) ==
  IF shares = <<>> THEN m
  ELSE deleteShares(MapDel(m, HashNtShare(Head(shares))), Tail(shares))

addNtShare(n) ==
  /\ ~panicked
  /\ LET err == addNtShareErr(n)
         bp == hashToBP[n.BP]
         shares == Append(MapGet(bpToNtShares, n.BP, <<>>), n)
         sig == recoverNtSig(shares)
         b == newBlock(bp, n)
     IN IF err # "nil"
        THEN /\ ret' = Ret("addNtShare", err, <<>>)
             /\ UNCHANGED <<bpToNtShares, hashToNtShare, bpNeedNotarize, panicked,
                            ntBlocks, acceptedShares>>
        ELSE IF Len(shares) >= GroupThreshold
        THEN IF ~validateGroupSig(sig, bp)
             THEN \* panic("impossible: group sig not valid")
                  /\ ret' = Ret("addNtShare", "panic", <<>>)
                  /\ bpToNtShares' = MapPut(bpToNtShares, n.BP, shares)
                  /\ panicked' = TRUE
                  /\ UNCHANGED <<hashToNtShare, bpNeedNotarize, ntBlocks, acceptedShares>>
             ELSE /\ ret' = Ret("addNtShare", "nil", <<b>>)
                  /\ bpNeedNotarize' = MapDel(bpNeedNotarize, n.BP)
                  /\ hashToNtShare' = deleteShares(hashToNtShare, shares)
                  /\ bpToNtShares' = MapDel(bpToNtShares, n.BP)
                  /\ ntBlocks' = ntBlocks (+) SetToBag({b})
                  /\ acceptedShares' = acceptedShares \cup {<<n.BP, n.Owner>>}
                  /\ UNCHANGED panicked
        ELSE /\ ret' = Ret("addNtShare", "nil", <<>>)
             /\ bpToNtShares' = MapPut(bpToNtShares, n.BP, shares)
             /\ hashToNtShare' = MapPut(hashToNtShare, HashNtShare(n), n)
             /\ acceptedShares' = acceptedShares \cup {<<n.BP, n.Owner>>}
             /\ UNCHANGED <<bpNeedNotarize, panicked, ntBlocks>>
  /\ UNCHANGED <<History, Finalized, Fork, nodes, UnNotarizedNotOnFork, hashToBlock,
                 hashToBP, beaconVars, recvBPs, started>>

\* addBlock -----------------------------------------------------------------
addBlockErr(b) ==
  IF HashBlock(b) \in DOMAIN hashToBlock THEN "block already exists"
  ELSE IF b.BlockProposal \notin DOMAIN hashToBP THEN "block's proposal not found"
  ELSE IF findPrevBlock(b.PrevBlock, Fork) # Nil THEN "nil"
  ELSE IF Len(Finalized) > 0 /\ Finalized[Len(Finalized)].Block = b.PrevBlock THEN "nil"
  ELSE IF History[Len(History)] = b.PrevBlock THEN "nil"
  ELSE "can not connect block to the chain"

\* A bug that leaves the mark of the consumed proposal in place.
clearNeedNotarizeForgets(h) == bpNeedNotarize

clearNeedNotarize(h) == MapDel(bpNeedNotarize, h)

\* A bug that leaves out the comparison with the previous round.
shouldStartRoundAnyAppend(r, prevRound) == r = randRound

shouldStartRound(r, prevRound) == r = prevRound + 1 /\ r = randRound

addBlock(b, weight) ==
  /\ ~panicked
  /\ LET prevRound == Round
         h == HashBlock(b)
         err == addBlockErr(b)
         nt == [Block |-> h, Weight |-> weight, NtChildren |-> <<>>,
                NonNtChildren |-> <<>>, BP |-> b.BlockProposal]
         prev == findPrevBlock(b.PrevBlock, Fork)
         withNt == MapPut(nodes, h, nt)
     IN /\ ret' = Ret("addBlock", err, <<>>)
        /\ IF err # "nil"
           THEN UNCHANGED <<Fork, nodes, hashToBlock, bpNeedNotarize, bpToNtShares, started>>
           ELSE /\ IF prev # Nil
                   THEN /\ nodes' = [withNt EXCEPT ![prev].NtChildren = Append(@, h)]
                        /\ UNCHANGED Fork
                   ELSE /\ nodes' = withNt
                        /\ Fork' = Append(Fork, h)
                /\ hashToBlock' = MapPut(hashToBlock, h, b)
                /\ bpNeedNotarize' = clearNeedNotarize(b.BlockProposal)
                /\ bpToNtShares' = MapDel(bpToNtShares, b.BlockProposal)
                /\ started' = IF shouldStartRound(round(History, Finalized, Fork', nodes'), prevRound)
                              THEN Append(started, round(History, Finalized, Fork', nodes'))
                              ELSE started
  /\ UNCHANGED <<History, Finalized, UnNotarizedNotOnFork, hashToBP, hashToNtShare,
                 beaconVars, recvBPs, panicked, ntBlocks, acceptedShares>>

\* ---------------------------------------------------------- random beacon
\* Rand.Derive and Rand.Mod: a Rand is a number below RandSpace.
Derive(r, salt) == (2 * r + salt + 1) % RandSpace
Mod(r, n) == r % n
hash(sig) == sig + 1
EncodeRandBeaconSig(rnd, lastRandVal) == <<6, rnd, lastRandVal>>

\* The aggregate of the beacon shares: a group signature over the one message
\* all the shares sign; none when they sign different messages or when two of
\* them come from the same owner (the recovery needs distinct ids).
recoverRandBeaconSig(shares) ==
  IF /\ \A i \in 1..Len(shares) : shares[i].LastRandVal = shares[1].LastRandVal
     /\ \A i, j \in 1..Len(shares) : i # j => shares[i].Owner # shares[j].Owner
  THEN [ok |-> TRUE, msg |-> EncodeRandBeaconSig(shares[1].Round, shares[1].LastRandVal)]
  ELSE [ok |-> FALSE, msg |-> Nil]

\* A bug that accumulates the share before checking its round.
sharesAfterRecvUnchecked(s) == Append(curRoundShares, s)

sharesAfterRecv(s) ==
  IF randRound # s.Round THEN curRoundShares ELSE Append(curRoundShares, s)

RecvRandBeaconSigShare(s) ==
  /\ ~panicked
  /\ LET shares == sharesAfterRecv(s)
         sig == recoverRandBeaconSig(shares)
         rbs == [LastRandVal |-> s.LastRandVal, Round |-> s.Round]
     IN /\ curRoundShares' = shares
        /\ IF randRound # s.Round
           THEN /\ ret' = Ret("RecvRandBeaconSigShare", "unexpected RandBeaconSigShare round", <<>>)
                /\ UNCHANGED panicked
           ELSE IF Len(shares) >= groupThreshold
           THEN IF sig.ok /\ sig.msg = EncodeRandBeaconSig(rbs.Round, rbs.LastRandVal)
                THEN /\ ret' = Ret("RecvRandBeaconSigShare", "nil", <<rbs>>)
                     /\ UNCHANGED panicked
                ELSE \* panic("impossible: random beacon group signature verification failed")
                     /\ ret' = Ret("RecvRandBeaconSigShare", "panic", <<>>)
                     /\ panicked' = TRUE
           ELSE /\ ret' = Ret("RecvRandBeaconSigShare", "nil", <<>>)
                /\ UNCHANGED panicked
  /\ UNCHANGED <<chainVars, nextRBCmteHistory, nextNtCmteHistory, nextBPCmteHistory,
                 rbRand, ntRand, bpRand, recvBPs, started, ntBlocks, acceptedShares>>

\* A bug that keeps the shares of the round that is over.
sharesAfterSigKept == curRoundShares

\* r.curRoundShares = nil
sharesAfterSig == <<>>

RecvRandBeaconSig(s) ==
  /\ ~panicked
  /\ IF randRound # s.Round
     THEN /\ ret' = Ret("RecvRandBeaconSig", "unexpected RandBeaconSig round", <<>>)
          /\ UNCHANGED beaconVars
     ELSE \* deriveRand(hash(s.Sig))
          /\ ret' = Ret("RecvRandBeaconSig", "nil", <<>>)
          /\ rbRand' = Derive(rbRand, hash(s.Sig))
          /\ nextRBCmteHistory' = Append(nextRBCmteHistory, Mod(rbRand', NumGroups))
          /\ ntRand' = Derive(ntRand, hash(s.Sig))
          /\ nextNtCmteHistory' = Append(nextNtCmteHistory, Mod(ntRand', NumGroups))
          /\ bpRand' = Derive(bpRand, hash(s.Sig))
          /\ nextBPCmteHistory' = Append(nextBPCmteHistory, Mod(bpRand', NumGroups))
          /\ curRoundShares' = sharesAfterSig
  /\ UNCHANGED <<chainVars, recvBPs, started, panicked, ntBlocks, acceptedShares>>

\* NewRoundInfo, as a value.
NewRoundInfo(seed) ==
  [rbRand |-> Derive(seed, 1), bpRand |-> Derive(seed, 2), ntRand |-> Derive(seed, 3),
   nextRBCmteHistory |-> <<Mod(Derive(seed, 1), NumGroups)>>,
   nextNtCmteHistory |-> <<Mod(Derive(seed, 3), NumGroups)>>,
   nextBPCmteHistory |-> <<Mod(Derive(seed, 2), NumGroups)>>,
   curRoundShares |-> <<>>]

\* A bug that derives the notarization randomness from the beacon's.
RecvRandBeaconSigOfCrossed(r, s) ==
  IF Len(r.nextRBCmteHistory) # s.Round THEN r
  ELSE LET rb == Derive(r.rbRand, hash(s.Sig))
           nt == Derive(rb, hash(s.Sig))
           bp == Derive(r.bpRand, hash(s.Sig))
       IN [rbRand |-> rb, ntRand |-> nt, bpRand |-> bp,
           nextRBCmteHistory |-> Append(r.nextRBCmteHistory, Mod(rb, NumGroups)),
           nextNtCmteHistory |-> Append(r.nextNtCmteHistory, Mod(nt, NumGroups)),
           nextBPCmteHistory |-> Append(r.nextBPCmteHistory, Mod(bp, NumGroups)),
           curRoundShares |-> <<>>]

\* RecvRandBeaconSig on the RoundInfo r, as a value: r after the call.
RecvRandBeaconSigOf(r, s) ==
  IF Len(r.nextRBCmteHistory) # s.Round THEN r
  ELSE LET rb == Derive(r.rbRand, hash(s.Sig))
           nt == Derive(r.ntRand, hash(s.Sig))
           bp == Derive(r.bpRand, hash(s.Sig))
       IN [rbRand |-> rb, ntRand |-> nt, bpRand |-> bp,
           nextRBCmteHistory |-> Append(r.nextRBCmteHistory, Mod(rb, NumGroups)),
           nextNtCmteHistory |-> Append(r.nextNtCmteHistory, Mod(nt, NumGroups)),
           nextBPCmteHistory |-> Append(r.nextBPCmteHistory, Mod(bp, NumGroups)),
           curRoundShares |-> <<>>]

\* ------------------------------------------------------------------ notary
\* The proposals that can come out of bCh.  The rank of a proposal is the
\* position of its owner in the round's committee; the owner after the last
\* proposer is no member, and the lookup of its rank fails.
NoBP == [Owner |-> 0, Txn |-> 0]
NotaryBPs == [Owner : 1..(NumProposers + 1), Txn : 1..NumTxns]
RankErr == MaxUint16 + 1
Rank(owner) == IF owner \in 1..NumProposers THEN owner - 1 ELSE RankErr

\* ------------------------------------------------------ the state machine
\* NewChain and NewRoundInfo.
Init ==
  /\ History = <<GenesisHash>>
  /\ Finalized = <<>>
  /\ Fork = <<>>
  /\ nodes = EmptyMap
  /\ UnNotarizedNotOnFork = <<>>
  /\ hashToBlock = MapPut(EmptyMap, GenesisHash, Genesis)
  /\ hashToBP = EmptyMap
  /\ hashToNtShare = EmptyMap
  /\ bpToNtShares = EmptyMap
  /\ bpNeedNotarize = EmptyMap
  /\ rbRand = Derive(Seed, 1)
  /\ bpRand = Derive(Seed, 2)
  /\ ntRand = Derive(Seed, 3)
  /\ nextRBCmteHistory = <<Mod(rbRand, NumGroups)>>
  /\ nextNtCmteHistory = <<Mod(ntRand, NumGroups)>>
  /\ nextBPCmteHistory = <<Mod(bpRand, NumGroups)>>
  /\ curRoundShares = <<>>
  /\ recvBPs = {}
  /\ started = <<>>
  /\ panicked = FALSE
  /\ ret = Ret("NewChain", "nil", <<>>)
  /\ ntBlocks = EmptyBag
  /\ acceptedShares = {}
  /\ mu = 0
  /\ pc = [t \in Threads |-> "idle"]
  /\ call = [t \in Threads |-> NoCall]
  /\ fcRead = [t \in Threads |-> <<>>]
  /\ nPc = "collect"
  /\ bestRankBPs = <<>>
  /\ bestRank = MaxUint16
  /\ recvBestRank = FALSE
  /\ ctxDone = FALSE
  /\ cancelDone = FALSE
  /\ nIdx = 0
  /\ nCur = NoBP
  /\ received = {}
  /\ emitted = {}
  /\ twin = NewRoundInfo(Seed)

\* What the callers may hand in.  A call that would register a proposal or a
\* block beyond maxBPs / maxBlocks is left out; every other call is offered.
KnownBlockHashes == DOMAIN hashToBlock \cup {HashBlock(b) : b \in BagToSet(ntBlocks)}

BPInputs(maxBPs) ==
  {bp \in [Round : Rounds, PrevBlock : KnownBlockHashes \cup {NoSuchHash}] :
     HashBP(bp) \in DOMAIN hashToBP \/ Cardinality(DOMAIN hashToBP) < maxBPs}

\* The block a notary builds for the proposal and signs with its key share.
notaryBlock(bp, stateRoot) ==
  [Round |-> bp.Round, StateRoot |-> stateRoot, BlockProposal |-> HashBP(bp),
   PrevBlock |-> bp.PrevBlock]

\* The messages a share may sign: the notary's block, or the proposal.
SigShareInputs(h, stateRoot) ==
  IF h \in DOMAIN hashToBP
  THEN {EncodeBlock(notaryBlock(hashToBP[h], stateRoot), FALSE), EncodeBP(hashToBP[h], TRUE)}
  ELSE {Nil}

NtShareInputs ==
  UNION {{[BP |-> h, StateRoot |-> r, Owner |-> o, SigShare |-> m] :
            m \in SigShareInputs(h, r)} :
         h \in DOMAIN hashToBP \cup {NoSuchHash}, r \in StateRoots, o \in Owners}

BlockInputs(maxBlocks) ==
  {b \in [Round : Rounds, StateRoot : StateRoots,
          BlockProposal : DOMAIN hashToBP \cup {NoSuchHash},
          PrevBlock : DOMAIN hashToBlock \cup {NoSuchHash}] :
     HashBlock(b) \in DOMAIN hashToBlock \/ Cardinality(DOMAIN hashToBlock) <= maxBlocks}

RBShareInputs ==
  {s \in [Round : {randRound, randRound + 1}, Owner : BeaconOwners, LastRandVal : SigVals] :
     Len(curRoundShares) < MaxBeaconShares}

RBSigInputs ==
  {s \in [Round : {randRound, randRound + 1}, Sig : SigVals] :
     s.Round = randRound => randRound <= MaxBeaconRound}

\* The chain, with the beacon's round advancing beside it.
Next ==
  \/ \E bp \in BPInputs(MaxBPs), weight \in BPWeights : addBP(bp, weight) /\ UNCHANGED otherVars
  \/ \E n \in NtShareInputs : addNtShare(n) /\ UNCHANGED otherVars
  \/ \E b \in BlockInputs(MaxBlocks), weight \in Weights : addBlock(b, weight) /\ UNCHANGED otherVars
  \/ \E s \in RBSigInputs : RecvRandBeaconSig(s) /\ UNCHANGED otherVars

Spec == Init /\ [][Next]_vars

\* Every operation of the chain and of the beacon, on a shorter chain.
NextAll ==
  \/ \E bp \in BPInputs(SmallMaxBPs), weight \in BPWeights :
        addBP(bp, weight) /\ UNCHANGED otherVars
  \/ \E n \in NtShareInputs : addNtShare(n) /\ UNCHANGED otherVars
  \/ \E b \in BlockInputs(SmallMaxBlocks), weight \in Weights :
        addBlock(b, weight) /\ UNCHANGED otherVars
  \/ \E s \in RBShareInputs : RecvRandBeaconSigShare(s) /\ UNCHANGED otherVars
  \/ \E s \in RBSigInputs : RecvRandBeaconSig(s) /\ UNCHANGED otherVars

SpecAll == Init /\ [][NextAll]_vars

\* Two RoundInfo made from the same seed and groups: the shares go to the first
\* only, every RandBeaconSig goes to both.
TwinSigInputs ==
  {s \in [Round : {randRound, randRound + 1}, Sig : 0..(NumTwinSigVals - 1)] :
     s.Round = randRound => randRound <= MaxTwinRound}

NextBeacon ==
  \/ \E s \in RBShareInputs :
        RecvRandBeaconSigShare(s) /\ UNCHANGED <<lockVars, notaryVars, twin>>
  \/ \E s \in TwinSigInputs :
        /\ RecvRandBeaconSig(s)
        /\ twin' = RecvRandBeaconSigOf(twin, s)
        /\ UNCHANGED <<lockVars, notaryVars>>

SpecBeacon == Init /\ [][NextBeacon]_vars

\* ------------------------------------------------ the chain behind its lock
\* The public operations as concurrent goroutines run them.  Each takes c.mu
\* in its first line and gives it back, deferred, when it returns; only
\* FinalizedChain takes no lock.  pc: "idle", "locked" (the lock is taken),
\* "attached" (addBlock has put the node into the tree), "return" (the
\* deferred Unlock is due), "fc" (inside FinalizedChain).
handlerVars == <<chainVars, beaconVars, recvBPs, started, panicked, ret, ntBlocks,
                 acceptedShares>>
Queries == {"Block", "BlockProposal", "NtShare", "NeedNotarize", "Round", "Leader"}
LockedOps == Queries \cup {"addBP", "addNtShare", "addBlock"}
KnownHashes ==
  DOMAIN hashToBlock \cup DOMAIN hashToBP \cup DOMAIN hashToNtShare \cup {NoSuchHash}

\* c.mu.Lock()
Lock(t, op) ==
  /\ ~panicked /\ pc[t] = "idle" /\ mu = 0
  /\ mu' = t
  /\ pc' = [pc EXCEPT ![t] = "locked"]
  /\ call' = [call EXCEPT ![t] = [NoCall EXCEPT !.op = op]]
  /\ UNCHANGED <<handlerVars, fcRead>>

\* defer c.mu.Unlock()
Unlock(t) ==
  /\ ~panicked /\ pc[t] = "return" /\ mu = t
  /\ mu' = 0
  /\ pc' = [pc EXCEPT ![t] = "idle"]
  /\ call' = [call EXCEPT ![t] = NoCall]
  /\ UNCHANGED <<handlerVars, fcRead>>

\* The body of Block, BlockProposal, NtShare, NeedNotarize, Round or Leader.
LockedQuery(t, h) ==
  /\ ~panicked /\ pc[t] = "locked" /\ call[t].op \in Queries
  /\ LET op == call[t].op
         val == CASE op = "Block" -> Block(h)
                  [] op = "BlockProposal" -> BlockProposal(h)
                  [] op = "NtShare" -> NtShare(h)
                  [] op = "NeedNotarize" -> NeedNotarize(h)
                  [] op = "Round" -> Round
                  [] op = "Leader" -> Leader
     IN ret' = Ret(op, "nil", <<val>>)
  /\ pc' = [pc EXCEPT ![t] = "return"]
  /\ UNCHANGED <<chainVars, beaconVars, recvBPs, started, panicked, ntBlocks,
                 acceptedShares, mu, call, fcRead>>

LockedAddBP(t, bp, weight) ==
  /\ pc[t] = "locked" /\ call[t].op = "addBP"
  /\ addBP(bp, weight)
  /\ pc' = [pc EXCEPT ![t] = "return"]
  /\ UNCHANGED <<mu, call, fcRead>>

LockedAddNtShare(t, n) ==
  /\ pc[t] = "locked" /\ call[t].op = "addNtShare"
  /\ addNtShare(n)
  /\ pc' = [pc EXCEPT ![t] = "return"]
  /\ UNCHANGED <<mu, call, fcRead>>

\* addBlock up to the attachment of the new node (chain.go:312-354).
addBlockAttach(t, b, weight) ==
  /\ ~panicked /\ pc[t] = "locked" /\ call[t].op = "addBlock"
  /\ LET h == HashBlock(b)
         err == addBlockErr(b)
         nt == [Block |-> h, Weight |-> weight, NtChildren |-> <<>>,
                NonNtChildren |-> <<>>, BP |-> b.BlockProposal]
         prev == findPrevBlock(b.PrevBlock, Fork)
         withNt == MapPut(nodes, h, nt)
     IN IF err # "nil"
        THEN /\ ret' = Ret("addBlock", err, <<>>)
             /\ pc' = [pc EXCEPT ![t] = "return"]
             /\ UNCHANGED <<Fork, nodes, call>>
        ELSE /\ IF prev # Nil
                THEN /\ nodes' = [withNt EXCEPT ![prev].NtChildren = Append(@, h)]
                     /\ UNCHANGED Fork
                ELSE /\ nodes' = withNt
                     /\ Fork' = Append(Fork, h)
             /\ call' = [call EXCEPT ![t] = [op |-> "addBlock", b |-> b, weight |-> weight,
                                             prevRound |-> Round]]
             /\ pc' = [pc EXCEPT ![t] = "attached"]
             /\ UNCHANGED ret
  /\ UNCHANGED <<History, Finalized, UnNotarizedNotOnFork, hashToBlock, hashToBP,
                 hashToNtShare, bpToNtShares, bpNeedNotarize, beaconVars, recvBPs, started,
                 panicked, ntBlocks, acceptedShares, mu, fcRead>>

\* The rest of addBlock: the index, the bookkeeping, the round (chain.go:358-367).
addBlockIndex(t) ==
  /\ ~panicked /\ pc[t] = "attached"
  /\ LET b == call[t].b
     IN /\ hashToBlock' = MapPut(hashToBlock, HashBlock(b), b)
        /\ bpNeedNotarize' = clearNeedNotarize(b.BlockProposal)
        /\ bpToNtShares' = MapDel(bpToNtShares, b.BlockProposal)
        /\ started' = IF shouldStartRound(Round, call[t].prevRound)
                      THEN Append(started, Round)
                      ELSE started
  /\ ret' = Ret("addBlock", "nil", <<>>)
  /\ pc' = [pc EXCEPT ![t] = "return"]
  /\ UNCHANGED <<History, Finalized, Fork, nodes, UnNotarizedNotOnFork, hashToBP,
                 hashToNtShare, beaconVars, recvBPs, panicked, ntBlocks, acceptedShares,
                 mu, call, fcRead>>

\* FinalizedChain: no lock.  It ranges over History, then over Finalized, and
\* looks each hash up in hashToBlock.
finalizedHashes == History \o [j \in 1..Len(Finalized) |-> Finalized[j].Block]

FinalizedChainStart(t) ==
  /\ ~panicked /\ pc[t] = "idle"
  /\ pc' = [pc EXCEPT ![t] = "fc"]
  /\ call' = [call EXCEPT ![t] = [NoCall EXCEPT !.op = "FinalizedChain"]]
  /\ fcRead' = [fcRead EXCEPT ![t] = <<>>]
  /\ UNCHANGED <<handlerVars, mu>>

\* Another goroutine is at its write of hashToBlock.
mapWritePending(t) == \E u \in Threads \ {t} : pc[u] = "attached"

\* One lookup.  Beside a pending write of the map the lookup is a data race:
\* it yields the entry, or the runtime ends the process ("fatal error:
\* concurrent map read and map write").
FinalizedChainRead(t) ==
  /\ ~panicked /\ pc[t] = "fc" /\ Len(fcRead[t]) < Len(finalizedHashes)
  /\ \/ /\ fcRead' = [fcRead EXCEPT
                        ![t] = Append(@, MapGet(hashToBlock, finalizedHashes[Len(@) + 1], Nil))]
        /\ UNCHANGED <<ret, panicked>>
     \/ /\ mapWritePending(t)
        /\ panicked' = TRUE
        /\ ret' = Ret("FinalizedChain", "fatal error", <<>>)
        /\ UNCHANGED fcRead
  /\ UNCHANGED <<chainVars, beaconVars, recvBPs, started, ntBlocks, acceptedShares,
                 mu, pc, call>>

FinalizedChainReturn(t) ==
  /\ ~panicked /\ pc[t] = "fc" /\ Len(fcRead[t]) = Len(finalizedHashes)
  /\ ret' = Ret("FinalizedChain", "nil", fcRead[t])
  /\ pc' = [pc EXCEPT ![t] = "idle"]
  /\ call' = [call EXCEPT ![t] = NoCall]
  /\ fcRead' = [fcRead EXCEPT ![t] = <<>>]
  /\ UNCHANGED <<chainVars, beaconVars, recvBPs, started, panicked, ntBlocks,
                 acceptedShares, mu>>

NextLock ==
  \/ \E t \in Threads, op \in LockedOps : Lock(t, op) /\ UNCHANGED outsideLock
  \/ \E t \in Threads : Unlock(t) /\ UNCHANGED outsideLock
  \/ \E t \in Threads, h \in KnownHashes : LockedQuery(t, h) /\ UNCHANGED outsideLock
  \/ \E t \in Threads, bp \in BPInputs(SmallMaxBPs), weight \in BPWeights :
        LockedAddBP(t, bp, weight) /\ UNCHANGED outsideLock
  \/ \E t \in Threads, n \in NtShareInputs : LockedAddNtShare(t, n) /\ UNCHANGED outsideLock
  \/ \E t \in Threads, b \in BlockInputs(SmallMaxBlocks), weight \in Weights :
        addBlockAttach(t, b, weight) /\ UNCHANGED outsideLock
  \/ \E t \in Threads : addBlockIndex(t) /\ UNCHANGED outsideLock
  \/ \E t \in Threads : FinalizedChainStart(t) /\ UNCHANGED outsideLock
  \/ \E t \in Threads : FinalizedChainRead(t) /\ UNCHANGED outsideLock
  \/ \E t \in Threads : FinalizedChainReturn(t) /\ UNCHANGED outsideLock

SpecLock == Init /\ [][NextLock]_vars

\* ------------------------------------------------------- Notary.Notarize
\* One call of Notarize.  nPc: "collect" (the select of the collection loop),
\* "best" (the range loop of the notarize closure), "bestCallback" and
\* "contCallback" (n.notarize has returned a share, onNotarize is due),
\* "continue" (the select of the closure's loop), "done" (returned).  A
\* select with several ready cases takes any of them.  The proposals on bCh
\* have passed addBP, so n.notarize finds their parent and returns a share.
outsideNotary == <<handlerVars, lockVars, twin>>

\* The deadline of ctx passes; the caller cancels the round.
SoftDeadline ==
  /\ ~ctxDone
  /\ ctxDone' = TRUE
  /\ UNCHANGED <<nPc, bestRankBPs, bestRank, recvBestRank, cancelDone, nIdx, nCur,
                 received, emitted, outsideNotary>>

HardCancel ==
  /\ ~cancelDone
  /\ cancelDone' = TRUE
  /\ UNCHANGED <<nPc, bestRankBPs, bestRank, recvBestRank, ctxDone, nIdx, nCur,
                 received, emitted, outsideNotary>>

\* case <-recvBestRankCh: notarize()
CollectRecvBestRank ==
  /\ nPc = "collect" /\ recvBestRank
  /\ nPc' = "best" /\ nIdx' = 1
  /\ UNCHANGED <<bestRankBPs, bestRank, recvBestRank, ctxDone, cancelDone, nCur,
                 received, emitted, outsideNotary>>

\* case <-ctx.Done(): notarize()
CollectCtxDone ==
  /\ nPc = "collect" /\ ctxDone
  /\ nPc' = "best" /\ nIdx' = 1
  /\ UNCHANGED <<bestRankBPs, bestRank, recvBestRank, ctxDone, cancelDone, nCur,
                 received, emitted, outsideNotary>>

\* A bug that keeps the worse proposals when a better one arrives.
collectBPsKeepsWorse(bp, rank) ==
  IF Len(bestRankBPs) = 0 THEN <<bp>>
  ELSE IF rank <= bestRank THEN Append(bestRankBPs, bp)
  ELSE bestRankBPs

\* The list of the collection loop after bp with this rank.
collectBPs(bp, rank) ==
  IF Len(bestRankBPs) = 0 THEN <<bp>>
  ELSE IF rank < bestRank THEN <<bp>>
  ELSE IF rank = bestRank THEN Append(bestRankBPs, bp)
  ELSE bestRankBPs

collectRank(rank) ==
  IF Len(bestRankBPs) = 0 THEN rank
  ELSE IF rank < bestRank THEN rank
  ELSE bestRank

\* case bp := <-bCh of the collection loop
CollectBP(bp) ==
  /\ nPc = "collect"
  /\ LET rank == Rank(bp.Owner)
     IN IF rank = RankErr
        THEN UNCHANGED <<bestRankBPs, bestRank, recvBestRank, received>>
        ELSE /\ Len(collectBPs(bp, rank)) <= MaxBestRankBPs
             /\ recvBestRank' = (recvBestRank \/ rank = 0)
             /\ bestRankBPs' = collectBPs(bp, rank)
             /\ bestRank' = collectRank(rank)
             /\ received' = received \cup {bp}
  /\ UNCHANGED <<nPc, ctxDone, cancelDone, nIdx, nCur, emitted, outsideNotary>>

\* A bug that signs the collected proposals when the round is cancelled.
CollectCancelSigns ==
  /\ nPc = "collect" /\ cancelDone
  /\ nPc' = "best" /\ nIdx' = 1
  /\ UNCHANGED <<bestRankBPs, bestRank, recvBestRank, ctxDone, cancelDone, nCur,
                 received, emitted, outsideNotary>>

\* case <-cancel.Done(): return, of the collection loop
CollectCancel ==
  /\ nPc = "collect" /\ cancelDone
  /\ nPc' = "done"
  /\ UNCHANGED <<bestRankBPs, bestRank, recvBestRank, ctxDone, cancelDone, nIdx, nCur,
                 received, emitted, outsideNotary>>

\* The share n.notarize makes for bp, with whether the hard cancel had fired
\* when n.notarize was called.
notarize(bp) == [bp |-> bp, afterCancel |-> cancelDone]

\* for _, bp := range bestRankBPs { s, dur := n.notarize(bp, ...)
BestNotarize ==
  /\ nPc = "best" /\ nIdx <= Len(bestRankBPs)
  /\ nCur' = notarize(bestRankBPs[nIdx])
  /\ nPc' = "bestCallback"
  /\ UNCHANGED <<bestRankBPs, bestRank, recvBestRank, ctxDone, cancelDone, nIdx,
                 received, emitted, outsideNotary>>

\* if s != nil { onNotarize(s, dur) } }
BestOnNotarize ==
  /\ nPc = "bestCallback"
  /\ emitted' = emitted \cup {nCur}
  /\ nIdx' = nIdx + 1
  /\ nPc' = "best"
  /\ nCur' = NoBP
  /\ UNCHANGED <<bestRankBPs, bestRank, recvBestRank, ctxDone, cancelDone,
                 received, outsideNotary>>

\* The range loop is over: on to the for / select of the closure.
BestDone ==
  /\ nPc = "best" /\ nIdx > Len(bestRankBPs)
  /\ nPc' = "continue" /\ nIdx' = 0
  /\ UNCHANGED <<bestRankBPs, bestRank, recvBestRank, ctxDone, cancelDone, nCur,
                 received, emitted, outsideNotary>>

\* A bug that leaves the cancel case out of the closure's select.
ContinueCancelMissing ==
  /\ nPc = "continue" /\ cancelDone
  /\ UNCHANGED vars

\* case <-cancel.Done(): return, of the closure's loop
ContinueCancel ==
  /\ nPc = "continue" /\ cancelDone
  /\ nPc' = "done"
  /\ UNCHANGED <<bestRankBPs, bestRank, recvBestRank, ctxDone, cancelDone, nIdx, nCur,
                 received, emitted, outsideNotary>>

\* case bp := <-bCh of the closure's loop
ContinueBP(bp) ==
  /\ nPc = "continue"
  /\ LET rank == Rank(bp.Owner)
     IN IF rank # RankErr /\ rank <= bestRank
        THEN /\ bestRank' = rank
             /\ nCur' = notarize(bp)
             /\ nPc' = "contCallback"
        ELSE UNCHANGED <<bestRank, nCur, nPc>>
  /\ UNCHANGED <<bestRankBPs, recvBestRank, ctxDone, cancelDone, nIdx,
                 received, emitted, outsideNotary>>

ContOnNotarize ==
  /\ nPc = "contCallback"
  /\ emitted' = emitted \cup {nCur}
  /\ nPc' = "continue"
  /\ nCur' = NoBP
  /\ UNCHANGED <<bestRankBPs, bestRank, recvBestRank, ctxDone, cancelDone, nIdx,
                 received, outsideNotary>>

NextNotary ==
  \/ SoftDeadline
  \/ HardCancel
  \/ CollectRecvBestRank
  \/ CollectCtxDone
  \/ \E bp \in NotaryBPs : CollectBP(bp)
  \/ CollectCancel
  \/ BestNotarize
  \/ BestOnNotarize
  \/ BestDone
  \/ ContinueCancel
  \/ \E bp \in NotaryBPs : ContinueBP(bp)
  \/ ContOnNotarize

SpecNotary == Init /\ [][NextNotary]_vars

\* n.notarize and onNotarize return, the range loop goes on, and a select that
\* has cancel.Done() ready again and again takes that case in the end.
FairSpecNotary ==
  /\ SpecNotary
  /\ WF_vars(BestNotarize) /\ WF_vars(BestOnNotarize) /\ WF_vars(BestDone)
  /\ WF_vars(ContOnNotarize)
  /\ SF_vars(CollectCancel) /\ SF_vars(ContinueCancel)

\* ------------------------------------------------- what the claims speak of
\* The depth of a node, read off the PrevBlock links of the blocks.
RECURSIVE depthOf(_)
depthOf(h) == IF h \in DOMAIN nodes THEN 1 + depthOf(hashToBlock[h].PrevBlock) ELSE 0

TreeDepth ==
  IF DOMAIN nodes = {} THEN 0
  ELSE CHOOSE d \in {depthOf(h) : h \in DOMAIN nodes} :
         \A h \in DOMAIN nodes : depthOf(h) <= d

\* The summed weights of the blocks from the root of the fork down to h.
RECURSIVE branchWeight(_)
branchWeight(h) ==
  IF h \in DOMAIN nodes THEN nodes[h].Weight + branchWeight(hashToBlock[h].PrevBlock) ELSE 0

Leaves == {h \in DOMAIN nodes : nodes[h].NtChildren = <<>>}

\* The shares accepted so far for proposal h, and the blocks produced for it.
AcceptedFor(h) == {p \in acceptedShares : p[1] = h}
ProducedFor(h) == {b \in BagToSet(ntBlocks) : b.BlockProposal = h}
NodesFor(h) == {x \in DOMAIN nodes : nodes[x].BP = h}

\* The proposals of the least rank among bps, and the proposals signed so far.
BestOf(bps) == {bp \in bps : \A q \in bps : Rank(bp.Owner) <= Rank(q.Owner)}
EmittedBPs == {e.bp : e \in emitted}
SeqRange(s) == {s[i] : i \in 1..Len(s)}

\* The step is an accepted addBlock; NewBlockHash is the hash it added.
AddBlockAccepted == ret'.op = "addBlock" /\ ret'.err = "nil" /\ hashToBlock' # hashToBlock
NewBlockHash == CHOOSE h \in DOMAIN hashToBlock' : h \notin DOMAIN hashToBlock

\* -------------------------------------------------------------------- C1
\* C1: for an accepted proposal and shares from pairwise distinct owners (and
\* no addBlock for the proposal in between), a share that leaves the count
\* below GroupThreshold returns no block and no error, the share that brings
\* the count to GroupThreshold returns exactly one Block, and every share after
\* a Block was produced is rejected with "do not need notarization".
C1_ThresholdShareReturnsBlock ==
  [][\A n \in NtShareInputs :
       (addNtShare(n) /\ n.BP \in DOMAIN hashToBP /\ <<n.BP, n.Owner>> \notin acceptedShares)
       => LET k == Cardinality(AcceptedFor(n.BP)) + 1
          IN /\ (NodesFor(n.BP) = {} /\ ProducedFor(n.BP) = {} /\ k < GroupThreshold)
                  => (ret'.err = "nil" /\ ret'.val = <<>>)
             /\ (NodesFor(n.BP) = {} /\ ProducedFor(n.BP) = {} /\ k = GroupThreshold)
                  => (ret'.err = "nil" /\ Len(ret'.val) = 1)
             /\ ProducedFor(n.BP) # {}
                  => (ret'.err = "block proposal do not need notarization" /\ ret'.val = <<>>)
  ]_vars

\* -------------------------------------------------------------------- C2
\* C2: no proposal is notarized twice: addNtShare has produced at most one
\* Block for a proposal, and the fork tree holds at most one notarized node
\* whose BP is that proposal.
C2_NoDoubleNotarization ==
  \A h \in DOMAIN hashToBP :
    /\ \A b \in ProducedFor(h) : CopiesIn(b, ntBlocks) <= 1
    /\ Cardinality(ProducedFor(h)) <= 1
    /\ Cardinality(NodesFor(h)) <= 1

\* -------------------------------------------------------------------- C3
\* C3: Round() is len(History) + len(Finalized) + the depth of the fork tree;
\* no step lowers it; an accepted addBlock raises it by exactly one when the
\* parent of the new block is at the deepest position (the history tail when
\* the fork is empty) and leaves it unchanged otherwise.
C3_RoundIsDepth ==
  /\ [](Round = Len(History) + Len(Finalized) + TreeDepth)
  /\ [][/\ Round' >= Round
        /\ AddBlockAccepted =>
             IF depthOf(hashToBlock'[NewBlockHash].PrevBlock) = TreeDepth
             THEN Round' = Round + 1
             ELSE Round' = Round
        /\ ~AddBlockAccepted => Round' = Round]_vars

\* Two blocks, the second extending the first: Round() went from 1 to 3.
C3_Witness ==
  /\ ret.op = "addBlock" /\ ret.err = "nil"
  /\ Cardinality(DOMAIN nodes) = 2
  /\ Round = 3

\* -------------------------------------------------------------------- C4
\* C4: an accepted proposal stays retrievable by its hash; NeedNotarize of its
\* hash turns true when it is accepted, stays true until its notarization
\* completes (addNtShare returns its Block, or addBlock accepts a block of
\* it), is false from then on, and is false for a hash that was never
\* accepted.
NotarizationCompletes(h) ==
  \/ ret'.op = "addNtShare" /\ Len(ret'.val) = 1 /\ ret'.val[1].BlockProposal = h
       /\ ntBlocks' # ntBlocks
  \/ AddBlockAccepted /\ hashToBlock'[NewBlockHash].BlockProposal = h

C4_NeedNotarizeUntilNotarized ==
  /\ [](\A h \in DOMAIN bpNeedNotarize : NeedNotarize(h) => h \in DOMAIN hashToBP)
  /\ [](\A h \in DOMAIN hashToBP : HashBP(BlockProposal(h)) = h)
  /\ [][/\ \A h \in DOMAIN hashToBP :
             /\ h \in DOMAIN hashToBP' /\ hashToBP'[h] = hashToBP[h]
             /\ ~NeedNotarize(h) => ~NeedNotarize(h)'
             /\ NeedNotarize(h) => (NeedNotarize(h)' <=> ~NotarizationCompletes(h))
        /\ \A h \in DOMAIN hashToBP' \ DOMAIN hashToBP :
             ret'.op = "addBP" /\ ret'.err = "nil" /\ NeedNotarize(h)']_vars

\* A proposal that was pending and whose block addBlock has just accepted.
C4_Witness ==
  /\ ret.op = "addBlock" /\ ret.err = "nil"
  /\ \E h \in DOMAIN hashToBP :
       /\ ~NeedNotarize(h)
       /\ NodesFor(h) # {}
       /\ AcceptedFor(h) # {}
  /\ \E h \in DOMAIN hashToBP : NeedNotarize(h)

\* -------------------------------------------------------------------- C5
\* C5: a share whose (proposal, owner) pair was accepted before is rejected
\* with an error, whatever has been accumulated and whether or not the
\* proposal is notarized: nothing is returned and nothing changes.
C5_DuplicateOwnerRejected ==
  [][\A n \in NtShareInputs :
       (addNtShare(n) /\ <<n.BP, n.Owner>> \in acceptedShares)
       => /\ ret'.err \notin {"nil", "panic"}
          /\ ret'.val = <<>>
          /\ UNCHANGED <<chainVars, ntBlocks>>]_vars

\* A duplicate was turned down while the first share was still accumulated.
C5_Witness ==
  /\ ret = Ret("addNtShare", "notarization share from the owner already received", <<>>)
  /\ \E h \in DOMAIN bpToNtShares : Len(bpToNtShares[h]) = 1

\* -------------------------------------------------------------------- C6
\* C6: a call of addBP, addNtShare, addBlock, RecvRandBeaconSigShare or
\* RecvRandBeaconSig that returns an error leaves the chain and the beacon as
\* they were.
C6_RejectedCallChangesNothing ==
  [][ret'.err \notin {"nil", "panic"}
       => UNCHANGED <<chainVars, beaconVars, recvBPs, started, ntBlocks, acceptedShares>>]_vars

\* A block that does not connect was turned down while shares of both kinds
\* were accumulated.
C6_Witness ==
  /\ ret = Ret("addBlock", "can not connect block to the chain", <<>>)
  /\ curRoundShares # <<>>
  /\ DOMAIN bpToNtShares # {}

C9_StartRoundOncePerRound ==
  /\ [](\A i, j \in 1..Len(started) : i # j => started[i] # started[j])
  /\ [][/\ started' # started
             <=> (AddBlockAccepted /\ Round' = Round + 1 /\ Round' = randRound)
        /\ started' # started => started' = Append(started, Round')
        /\ AddBlockAccepted => randRound' = randRound]_vars

\* Round 2 was started, and a later block was accepted without a start.
C9_Witness ==
  /\ started = <<2>>
  /\ ret.op = "addBlock" /\ ret.err = "nil"
  /\ Cardinality(DOMAIN nodes) = 2
  /\ randRound = 2 /\ Round = 2

\* ------------------------------------------------------------------- C10
\* C10: with a non-empty fork, Leader returns the leaf of the branch whose
\* summed block weights are the greatest, and that block is at the deepest
\* level of the chain (position Round() - 1).
C10_LeaderIsHeaviestTip ==
  Len(Fork) > 0 =>
    /\ Leader \in Leaves
    /\ \A h \in Leaves : branchWeight(h) <= branchWeight(Leader)
    /\ Len(History) + Len(Finalized) + depthOf(Leader) - 1 = Round - 1

\* ------------------------------------------------------------------- C11
\* C11: every public operation of the Chain holds c.mu from its first step to
\* its return, so no operation reads History, Finalized or the hash indexes
\* while another one stands between two of its writes.
C11_EveryOperationHoldsLock ==
  /\ \A t \in Threads : pc[t] # "idle" => mu = t
  /\ \A t, u \in Threads : ~(pc[t] = "fc" /\ pc[u] = "attached")

\* ------------------------------------------------------------------- C12
\* C12: the collection loop holds exactly the received proposals of the least
\* rank, and when the soft deadline (or a rank-0 proposal) ends the collection
\* the closure signs and emits exactly these, whatever the order of arrival.
C12_SignsBestRankAtDeadline ==
  /\ [](nPc \in {"collect", "best", "bestCallback"}
          => SeqRange(bestRankBPs) = BestOf(received))
  /\ [](nPc \in {"best", "bestCallback"} => EmittedBPs \subseteq BestOf(received))
  /\ [][(nPc = "best" /\ nPc' = "continue") => EmittedBPs' = BestOf(received)]_vars

\* The soft deadline closed a collection of two rank-1 proposals and a rank-2
\* proposal: the two were signed.
C12_Witness ==
  /\ nPc = "continue" /\ ctxDone /\ ~recvBestRank
  /\ Cardinality(received) = 3
  /\ Cardinality(EmittedBPs) = 2
  /\ \A bp \in EmittedBPs : Rank(bp.Owner) = 1
  /\ \E bp \in received : Rank(bp.Owner) = 2

\* ------------------------------------------------------------------- C13
\* C13: once the hard cancel has fired no further share is made: every share
\* handed to onNotarize comes from a call of n.notarize that began before the
\* hard cancel fired (work in flight when it fired is let through).
C13_NoShareAfterHardCancel ==
  \A e \in emitted : ~e.afterCancel

C15_HistoriesAdvanceTogether ==
  /\ [](/\ Len(nextNtCmteHistory) = Len(nextRBCmteHistory)
        /\ Len(nextBPCmteHistory) = Len(nextRBCmteHistory))
  /\ [][/\ \A s \in TwinSigInputs :
             (RecvRandBeaconSig(s) /\ s.Round = randRound)
             => /\ \E x \in 0..(NumGroups - 1) :
                     nextRBCmteHistory' = Append(nextRBCmteHistory, x)
                /\ \E x \in 0..(NumGroups - 1) :
                     nextNtCmteHistory' = Append(nextNtCmteHistory, x)
                /\ \E x \in 0..(NumGroups - 1) :
                     nextBPCmteHistory' = Append(nextBPCmteHistory, x)
                /\ curRoundShares' = <<>>
                /\ randRound' = randRound + 1
        /\ \A s \in RBShareInputs :
             RecvRandBeaconSigShare(s)
             => UNCHANGED <<nextRBCmteHistory, nextNtCmteHistory, nextBPCmteHistory,
                            rbRand, ntRand, bpRand>>
        /\ randRound' # randRound => ret' = Ret("RecvRandBeaconSig", "nil", <<>>)]_vars

\* In the third round the shares reached the threshold and RecvRandBeaconSigShare
\* returned the aggregate.
C15_Witness ==
  /\ ret.op = "RecvRandBeaconSigShare" /\ Len(ret.val) = 1
  /\ randRound = 3
  /\ Len(curRoundShares) = groupThreshold

\* ------------------------------------------------------------------- C16
\* C16: when addBlock has accepted a block of proposal P, and when addNtShare
\* has reached the threshold for P, the bookkeeping of P's notarization is
\* gone: NeedNotarize(P) is false, no shares are accumulated for P, and
\* NtShare(hash) returns no share of P.
C16_BookkeepingCleared ==
  [][LET cleared(P) ==
           /\ ~MapGet(bpNeedNotarize', P, FALSE)
           /\ P \notin DOMAIN bpToNtShares'
           /\ \A h \in DOMAIN hashToNtShare' : hashToNtShare'[h].BP # P
     IN /\ AddBlockAccepted => cleared(hashToBlock'[NewBlockHash].BlockProposal)
        /\ (ret'.op = "addNtShare" /\ Len(ret'.val) = 1 /\ ntBlocks' # ntBlocks)
             => cleared(ret'.val[1].BlockProposal)]_vars

\* ------------------------------------------------------------------- C17
\* C17: when the shares that reach GroupThreshold for a proposal were all made
\* by Notary.notarize, the aggregate verifies: addNtShare does not panic and
\* returns the Block.
HonestShare(n) ==
  /\ n.BP \in DOMAIN hashToBP
  /\ n.SigShare = EncodeBlock(notaryBlock(hashToBP[n.BP], n.StateRoot), FALSE)

C17_HonestSharesVerify ==
  [][\A n \in NtShareInputs :
       (/\ addNtShare(n)
        /\ addNtShareErr(n) = "nil"
        /\ HonestShare(n)
        /\ Len(MapGet(bpToNtShares, n.BP, <<>>)) + 1 >= GroupThreshold
        /\ \A i \in 1..Len(MapGet(bpToNtShares, n.BP, <<>>)) :
             HonestShare(bpToNtShares[n.BP][i]))
       => (ret'.err = "nil" /\ Len(ret'.val) = 1 /\ ~panicked')]_vars

\* ------------------------------------------------------------------- C18
\* C18: the collection loop makes and emits no share; a share is emitted only
\* when the soft deadline has fired or a rank-0 proposal was received; and
\* when the collection loop takes the hard cancel, Notarize returns without
\* any share and none follows.
C18_NoShareDuringCollection ==
  /\ [](nPc = "collect" => (emitted = {} /\ nCur = NoBP))
  /\ [][/\ (emitted' # emitted \/ nCur' \notin {nCur, NoBP}) => (ctxDone \/ recvBestRank)
        /\ (nPc = "collect" /\ nPc' = "done") => emitted' = {}
        /\ nPc = "done" => (nPc' = "done" /\ emitted' = emitted)]_vars

\* The soft deadline fired with no rank-0 proposal received and no cancel, and
\* the first share has been emitted.
C18_Witness ==
  /\ Cardinality(emitted) = 1
  /\ ctxDone /\ ~recvBestRank /\ ~cancelDone
  /\ nPc = "best"

\* ------------------------------------------------------------------- C19
\* C19: once the hard cancel has fired Notarize returns, from the collection
\* loop as from the closure's loop, with proposals still arriving.
C19_NotarizeReturns == cancelDone ~> (nPc = "done")

\* Notarize has returned from the closure's loop after it had signed a
\* proposal that arrived when the hard cancel had already fired.
C19_Witness ==
  /\ nPc = "done" /\ cancelDone
  /\ \E e \in emitted : e.afterCancel /\ e.bp \notin received

\* ------------------------------------------------------------------- C20
\* C20: RecvRandBeaconSigShare returns an aggregate only when shares of at
\* least groupThreshold distinct owners have been received in the round; a
\* share received again does not count: with fewer distinct owners the call
\* is one below the threshold and returns neither an aggregate nor a fault.
ShareOwners(shares) == {shares[i].Owner : i \in 1..Len(shares)}

C20_AggregateNeedsDistinctShares ==
  [][\A s \in RBShareInputs :
       (RecvRandBeaconSigShare(s) /\ s.Round = randRound)
       => /\ Len(ret'.val) = 1
               => Cardinality(ShareOwners(curRoundShares')) >= groupThreshold
          /\ Cardinality(ShareOwners(curRoundShares')) < groupThreshold
               => (ret'.err = "nil" /\ ret'.val = <<>> /\ ~panicked')]_vars

====
